---- MODULE Spec2Model ----
(***************************************************************************)
(* xrspatial.curvature: the 4-neighbour curvature stencil, its dense,      *)
(* tiled (dask map_overlap) and per-cell CUDA kernel evaluators, and the   *)
(* dispatcher curvature() that selects one of them by storage type.        *)
(*                                                                         *)
(* Numbers.  A floating-point value is modelled as an exact rational       *)
(* <<n, d>> in lowest terms with d > 0, and NaN as <<0, 0>>.  Every        *)
(* arithmetic operator propagates NaN as IEEE-754 does.  Rounding (and     *)
(* the float32 width of the device path) is not modelled; infinities do    *)
(* not arise because the inputs are finite-or-NaN and cellsize > 0.        *)
(*                                                                         *)
(* Arrays are indexed from 0 as in the source: a grid is a record          *)
(* [rows, cols, v] with v a function on (0..rows-1) \X (0..cols-1).        *)
(***************************************************************************)
EXTENDS Integers, Sequences, FiniteSets, TLC

VARIABLES
    agg,       \* the input container: kind, data, res, coords, dims, attrs, chunks
    env,       \* the runtime: [hasCuda, cupyInstalled]
    name,      \* the name argument of curvature()
    pc,        \* position of the call / of the launch
    cellsize,  \* the scalar cell size of the call
    invoked,   \* sequence of the evaluators invoked so far
    out,       \* the evaluator's output grid / the device output buffer
    result,    \* what the call gave back: a container, an error, or nothing yet
    chunks,    \* the chunking of a dask array: <<row cuts, column cuts>>
    launch,    \* the kernel launch extent <<launch rows, launch cols>>
    upc,       \* per-unit position of the units whose guard may pass
    loc,       \* per-unit local value curv
    retired,   \* number of guard-failing units that have run
    acc        \* the array accesses made so far: <<unit, "r"/"w", index>>

vars == <<agg, env, name, pc, cellsize, invoked, out, result, chunks, launch,
          upc, loc, retired, acc>>

----------------------------------------------------------------------------
(* Bounds of the model *)

MaxDim == 4
MaxSlope == 1
MaxBump == 1
MaxRes == 2
MaxPad == 1

(* The smallest extent that has an interior cell: range(1, rows - 1) is     *)
(* non-empty from rows = 3 on.                                             *)
MinDim == 3

----------------------------------------------------------------------------
(* Floating-point values as exact rationals with NaN *)

NaN == <<0, 0>>

IsNaN(a) == a[2] = 0

Abs(n) == IF n < 0 THEN -n ELSE n

RECURSIVE Gcd(_, _)
Gcd(m, n) == IF n = 0 THEN m ELSE Gcd(n, m % n)

Norm(n, d) ==
    LET g == Gcd(Abs(n), Abs(d))
        s == IF d < 0 THEN -1 ELSE 1
    IN  IF d = 0 THEN NaN ELSE <<s * (n \div g), s * (d \div g)>>

Num(k) == <<k, 1>>

FAdd(a, b) == IF IsNaN(a) \/ IsNaN(b) THEN NaN
              ELSE Norm(a[1] * b[2] + b[1] * a[2], a[2] * b[2])

FSub(a, b) == IF IsNaN(a) \/ IsNaN(b) THEN NaN
              ELSE Norm(a[1] * b[2] - b[1] * a[2], a[2] * b[2])

FMul(a, b) == IF IsNaN(a) \/ IsNaN(b) THEN NaN
              ELSE Norm(a[1] * b[1], a[2] * b[2])

(* Only ever applied with a non-zero divisor (cellsize > 0, the literal 2). *)
FDiv(a, b) == IF IsNaN(a) \/ IsNaN(b) \/ b[1] = 0 THEN NaN
              ELSE Norm(a[1] * b[2], a[2] * b[1])

----------------------------------------------------------------------------
(* Grids *)

Idx(rows, cols) == (0 .. rows - 1) \X (0 .. cols - 1)

Grid(rows, cols, f) == [rows |-> rows, cols |-> cols, v |-> f]

InBounds(g, p) == p \in Idx(g.rows, g.cols)

(* np.empty(shape); out[:, :] = nan *)
NanGrid(rows, cols) == Grid(rows, cols, [p \in Idx(rows, cols) |-> NaN])

----------------------------------------------------------------------------
(* _cpu: the dense evaluator *)

(* a faulty loop body: d taken from two diagonal neighbours *)
CpuCellDiag(data, cs, y, x) ==
    LET d == FSub(FDiv(FAdd(data.v[<<y + 1, x + 1>>], data.v[<<y - 1, x - 1>>]), Num(2)),
                  data.v[<<y, x>>])
        e == FSub(FDiv(FAdd(data.v[<<y, x + 1>>], data.v[<<y, x - 1>>]), Num(2)),
                  data.v[<<y, x>>])
    IN  FDiv(FMul(FMul(Num(-2), FAdd(d, e)), Num(100)), FMul(cs, cs))

(* a faulty loop body: the two neighbour sums are not halved *)
CpuCellNoHalf(data, cs, y, x) ==
    LET d == FSub(FAdd(data.v[<<y + 1, x>>], data.v[<<y - 1, x>>]), data.v[<<y, x>>])
        e == FSub(FAdd(data.v[<<y, x + 1>>], data.v[<<y, x - 1>>]), data.v[<<y, x>>])
    IN  FDiv(FMul(FMul(Num(-2), FAdd(d, e)), Num(100)), FMul(cs, cs))

(* the loop body, lines 36-38 *)
CpuCell(data, cs, y, x) ==
    LET d == FSub(FDiv(FAdd(data.v[<<y + 1, x>>], data.v[<<y - 1, x>>]), Num(2)),
                  data.v[<<y, x>>])
        e == FSub(FDiv(FAdd(data.v[<<y, x + 1>>], data.v[<<y, x - 1>>]), Num(2)),
                  data.v[<<y, x>>])
    IN  FDiv(FMul(FMul(Num(-2), FAdd(d, e)), Num(100)), FMul(cs, cs))

(* range(1, n - 1) *)
CpuRange(n) == 1 .. n - 2

_cpu(data, cs) ==
    Grid(data.rows, data.cols,
         [p \in Idx(data.rows, data.cols) |->
            IF p[1] \in CpuRange(data.rows) /\ p[2] \in CpuRange(data.cols)
            THEN CpuCell(data, cs, p[1], p[2])
            ELSE NaN])

_run_numpy(data, cs) == _cpu(data, cs)

----------------------------------------------------------------------------
(* _run_dask_numpy: data.map_overlap(_func, depth=(1, 1), boundary=np.nan) *)
(* A chunking is <<row cuts, column cuts>>: the interior positions where    *)
(* one chunk ends and the next begins.  map_overlap extends every chunk by  *)
(* `depth` cells on each side (the neighbour chunk's cells, or `boundary`   *)
(* beyond the array), applies the function to the extended chunk, trims     *)
(* `depth` cells from each side of the result and reassembles.              *)

Depth == 1

(* a faulty boundary policy: boundary=0 *)
BoundaryZero == Num(0)

Boundary == NaN

SetMax(S) == CHOOSE m \in S : \A k \in S : k <= m

SetMin(S) == CHOOSE m \in S : \A k \in S : m <= k

ChunkStart(cuts, r) == SetMax({s \in cuts \cup {0} : s <= r})

ChunkEnd(cuts, n, r) == SetMin({e \in cuts \cup {n} : e > r})

(* the chunk that holds cell p: [r0, r1) x [c0, c1) *)
ChunkOf(data, ch, p) ==
    [r0 |-> ChunkStart(ch[1], p[1]), r1 |-> ChunkEnd(ch[1], data.rows, p[1]),
     c0 |-> ChunkStart(ch[2], p[2]), c1 |-> ChunkEnd(ch[2], data.cols, p[2])]

Chunks(data, ch) == {ChunkOf(data, ch, p) : p \in Idx(data.rows, data.cols)}

(* a faulty overlap: the halo is filled with the boundary value everywhere, *)
(* the neighbour chunks are not consulted                                  *)
OverlapNoHalo(data, b) ==
    Grid(b.r1 - b.r0 + 2 * Depth, b.c1 - b.c0 + 2 * Depth,
         [q \in Idx(b.r1 - b.r0 + 2 * Depth, b.c1 - b.c0 + 2 * Depth) |->
            LET g == <<b.r0 - Depth + q[1], b.c0 - Depth + q[2]>>
            IN  IF g[1] \in b.r0 .. b.r1 - 1 /\ g[2] \in b.c0 .. b.c1 - 1
                THEN data.v[g] ELSE Boundary])

(* the chunk extended by the halo *)
Overlap(data, b) ==
    Grid(b.r1 - b.r0 + 2 * Depth, b.c1 - b.c0 + 2 * Depth,
         [q \in Idx(b.r1 - b.r0 + 2 * Depth, b.c1 - b.c0 + 2 * Depth) |->
            LET g == <<b.r0 - Depth + q[1], b.c0 - Depth + q[2]>>
            IN  IF InBounds(data, g) THEN data.v[g] ELSE Boundary])

(* the value the trimmed result of chunk b contributes at global cell p *)
Trim(res, b, p) == res.v[<<p[1] - b.r0 + Depth, p[2] - b.c0 + Depth>>]

_run_dask_numpy(data, ch, cs) ==
    LET done == [b \in Chunks(data, ch) |-> _cpu(Overlap(data, b), cs)]
    IN  Grid(data.rows, data.cols,
             [p \in Idx(data.rows, data.cols) |->
                LET b == ChunkOf(data, ch, p) IN Trim(done[b], b, p)])

----------------------------------------------------------------------------
(* _gpu and _run_gpu: the per-cell kernel *)

(* An element load.  The kernel as written never loads outside the array;   *)
(* an out-of-range load, which only a wrong guard can cause, has no defined *)
(* value and is given NaN so that the access log can report it.             *)
Load(arr, p) == IF InBounds(arr, p) THEN arr.v[p] ELSE NaN

(* arr[i - di:i + di + 1, j - dj:j + dj + 1]: a view, no element is loaded *)
Slice(arr, i, j, di, dj) == [q \in Idx(2 * di + 1, 2 * dj + 1) |-> <<i - di + q[1], j - dj + q[2]>>]

(* the elements of the view that _gpu loads, lines 63-64 *)
GpuTaps == {<<1, 0>>, <<1, 2>>, <<1, 1>>, <<0, 1>>, <<2, 1>>}

(* a faulty device function: arr[0, 0] loaded in place of arr[1, 0] *)
_gpuDiag(arr, view, cs) ==
    LET d == FSub(FDiv(FAdd(Load(arr, view[<<0, 0>>]), Load(arr, view[<<1, 2>>])), Num(2)),
                  Load(arr, view[<<1, 1>>]))
        e == FSub(FDiv(FAdd(Load(arr, view[<<0, 1>>]), Load(arr, view[<<2, 1>>])), Num(2)),
                  Load(arr, view[<<1, 1>>]))
    IN  FDiv(FMul(FMul(Num(-2), FAdd(d, e)), Num(100)), FMul(cs[1], cs[1]))

_gpu(arr, view, cs) ==
    LET d == FSub(FDiv(FAdd(Load(arr, view[<<1, 0>>]), Load(arr, view[<<1, 2>>])), Num(2)),
                  Load(arr, view[<<1, 1>>]))
        e == FSub(FDiv(FAdd(Load(arr, view[<<0, 1>>]), Load(arr, view[<<2, 1>>])), Num(2)),
                  Load(arr, view[<<1, 1>>]))
    IN  FDiv(FMul(FMul(Num(-2), FAdd(d, e)), Num(100)), FMul(cs[1], cs[1]))

(* a faulty test: the upper limits admit the last row and column *)
GuardNoUpper(i, j, rows, cols) ==
    i - 1 >= 0 /\ j - 1 >= 0 /\ i <= rows - 1 /\ j <= cols - 1

(* the test of lines 74-75, on out.shape *)
Guard(i, j, rows, cols) ==
    i - 1 >= 0 /\ i + 1 <= rows - 1 /\ j - 1 >= 0 /\ j + 1 <= cols - 1

(* the units of a launch: cuda.grid(2) over launch extent L *)
Units(L) == Idx(L[1], L[2])

(* what one whole launch leaves in the output buffer that was seeded with   *)
(* NaN: every unit writes at most its own cell                              *)
_run_cupy(data, L, cs) ==
    LET cellsize_arr == <<cs>>
        seeded == NanGrid(data.rows, data.cols)
    IN  Grid(data.rows, data.cols,
             [p \in Idx(data.rows, data.cols) |->
                IF p \in Units(L) /\ Guard(p[1], p[2], seeded.rows, seeded.cols)
                THEN _gpu(data, Slice(data, p[1], p[2], 1, 1), cellsize_arr)
                ELSE seeded.v[p]])

----------------------------------------------------------------------------
(* The inputs the model draws from *)

(* one extent is the smallest, the other ranges *)
Shapes == {<<MinDim, n>> : n \in MinDim .. MaxDim} \cup {<<n, MinDim>> : n \in MinDim .. MaxDim}

(* elevation[row, col] = a*row + b*col + c *)
Plane(rows, cols, a, b, c) ==
    Grid(rows, cols, [p \in Idx(rows, cols) |-> Num(a * p[1] + b * p[2] + c)])

Planes(rows, cols) ==
    {Plane(rows, cols, a, b, c) : a \in -MaxSlope .. MaxSlope, b \in 0 .. MaxSlope,
                                  c \in 0 .. MaxSlope}

(* a fixed uneven surface: its second differences differ along both axes    *)
Terrain(rows, cols) ==
    Grid(rows, cols, [p \in Idx(rows, cols) |-> Num(p[1] * p[1] + 3 * p[2] - p[1] * p[2])])

(* g with cell `hole` undefined and cell `peak` raised by h; a position      *)
(* outside the grid leaves g as it is                                       *)
Perturb(g, hole, peak, h) ==
    Grid(g.rows, g.cols,
         [p \in Idx(g.rows, g.cols) |->
            IF p = hole THEN NaN
            ELSE IF p = peak THEN FAdd(g.v[p], Num(h)) ELSE g.v[p]])

None == <<-1, -1>>

(* the uneven surface itself, with one raised cell anywhere, or with one     *)
(* undefined cell anywhere next to a raised centre                          *)
Rough(rows, cols) ==
    {Perturb(Terrain(rows, cols), None, peak, h) :
        peak \in Idx(rows, cols) \cup {None}, h \in 1 .. MaxBump}
    \cup {Perturb(Terrain(rows, cols), hole, <<1, 1>>, MaxBump) : hole \in Idx(rows, cols)}

(* the all-zero 5x5 grid *)
FlatExample == Plane(5, 5, 0, 0, 0)

Grids == UNION {Planes(s[1], s[2]) \cup Rough(s[1], s[2]) : s \in Shapes} \cup {FlatExample}

(* positive axis resolutions *)
Resolutions == (1 .. MaxRes) \X (1 .. MaxRes)

(* cellsize = (cellsize_x + cellsize_y) / 2, line 209 *)
Mean(res) == FDiv(FAdd(Num(res[1]), Num(res[2])), Num(2))

Cellsizes == {Mean(r) : r \in Resolutions}

Chunkings(g) == (SUBSET (1 .. g.rows - 1)) \X (SUBSET (1 .. g.cols - 1))

(* cuda_args(data.shape): a launch that covers the array *)
Launches(g) == {<<g.rows + pr, g.cols + pq>> : pr \in 0 .. MaxPad, pq \in 0 .. MaxPad}

NoContainer == [kind |-> "none"]

Bare(g) == [kind |-> "bare", data |-> g]

----------------------------------------------------------------------------
(* SpecEval: each evaluator applied directly to an input grid *)

InitEval ==
    /\ agg \in {Bare(g) : g \in Grids}
    /\ cellsize \in Cellsizes
    /\ env = [hasCuda |-> TRUE, cupyInstalled |-> TRUE]
    /\ name = "curvature"
    /\ pc = "start"
    /\ invoked = <<>>
    /\ out = NanGrid(0, 0)
    /\ result = NoContainer
    /\ chunks = <<{}, {}>>
    /\ launch = <<0, 0>>
    /\ upc = <<>>
    /\ loc = <<>>
    /\ retired = 0
    /\ acc = {}

EvalNumpy ==
    /\ pc = "start"
    /\ out' = _run_numpy(agg.data, cellsize)
    /\ invoked' = Append(invoked, "_run_numpy")
    /\ pc' = "done"
    /\ UNCHANGED <<agg, env, name, cellsize, result, chunks, launch, upc, loc, retired, acc>>

EvalDaskNumpy ==
    /\ pc = "start"
    /\ \E ch \in Chunkings(agg.data) :
          /\ chunks' = ch
          /\ out' = _run_dask_numpy(agg.data, ch, cellsize)
    /\ invoked' = Append(invoked, "_run_dask_numpy")
    /\ pc' = "done"
    /\ UNCHANGED <<agg, env, name, cellsize, result, launch, upc, loc, retired, acc>>

EvalCupy ==
    /\ pc = "start"
    /\ \E L \in Launches(agg.data) :
          /\ launch' = L
          /\ out' = _run_cupy(agg.data, L, cellsize)
    /\ invoked' = Append(invoked, "_run_cupy")
    /\ pc' = "done"
    /\ UNCHANGED <<agg, env, name, cellsize, result, chunks, upc, loc, retired, acc>>

NextEval == EvalNumpy \/ EvalDaskNumpy \/ EvalCupy

SpecEval == InitEval /\ [][NextEval]_vars

----------------------------------------------------------------------------
(* curvature(): the dispatcher *)

(* The storage types of agg.data.  "other" is any type that is neither a    *)
(* numpy array, a cupy array nor a dask array.                              *)
Kinds == {"numpy", "cupy", "dask_numpy", "dask_cupy", "other"}

TypeName(a) ==
    CASE a.kind = "numpy" -> "numpy.ndarray"
      [] a.kind = "cupy" -> "cupy.ndarray"
      [] a.kind \in {"dask_numpy", "dask_cupy"} -> "dask.array.core.Array"
      [] OTHER -> "other"

(* lines 6-10: cupy.ndarray is the array class when cupy imports, and the   *)
(* value False of the stand-in class when it does not                       *)
CupyNdarray(e) == IF e.cupyInstalled THEN "cupy.ndarray" ELSE "False"

(* isinstance(agg.data, cls): with a second argument that is no type it     *)
(* raises TypeError                                                         *)
IsInstance(a, cls) ==
    IF cls = "False" THEN "raise"
    ELSE IF TypeName(a) = cls THEN "true" ELSE "false"

(* xrspatial.utils.has_cuda() *)
has_cuda(e) == e.hasCuda

(* xrspatial.utils.is_cupy_backed(agg) *)
is_cupy_backed(a) == a.kind = "dask_cupy"

(* xrspatial.utils.get_dataarray_resolution(agg): the "res" attribute *)
get_dataarray_resolution(a) == a.attrs.res

Raised(type, msg) == [kind |-> "error", type |-> type, msg |-> msg]

(* a faulty wrap-up: only the res attribute is carried over *)
DataArrayNoAttrs(data, nm, coords, dims, attrs) ==
    [kind |-> "DataArray", data |-> data, name |-> nm, coords |-> coords, dims |-> dims,
     attrs |-> [res |-> attrs.res]]

(* xr.DataArray(out, name=name, coords=agg.coords, dims=agg.dims, attrs=agg.attrs) *)
DataArray(data, nm, coords, dims, attrs) ==
    [kind |-> "DataArray", data |-> data, name |-> nm, coords |-> coords, dims |-> dims,
     attrs |-> attrs]

(* _run_dask_cupy, lines 94-97 *)
_run_dask_cupy(data, cs) ==
    Raised("NotImplementedError", <<"Upstream bug in dask prevents cupy backed arrays">>)

Returns(fn, o, a, nm) ==
    [invoked |-> <<fn>>, out |-> o,
     result |-> DataArray(o, nm, a.coords, a.dims, a.attrs)]

Raises(fns, err) == [invoked |-> fns, out |-> NanGrid(0, 0), result |-> err]

(* The body of curvature, lines 208-234: the evaluators invoked, the array  *)
(* computed and what the call gives back.  ch is the chunking of a dask     *)
(* array and L the launch extent cuda_args gives.  The output of a dask     *)
(* array is lazy: out holds the values a later compute() of host chunks     *)
(* yields.                                                                  *)
curvature(a, e, nm, ch, L) ==
    LET res == get_dataarray_resolution(a)
        cs == Mean(res)
    IN  IF IsInstance(a, "numpy.ndarray") = "true"
        THEN Returns("_run_numpy", _run_numpy(a.data, cs), a, nm)
        ELSE IF has_cuda(e) /\ IsInstance(a, CupyNdarray(e)) = "raise"
        THEN Raises(<<>>, Raised("TypeError", <<"isinstance() arg 2 must be a type">>))
        ELSE IF has_cuda(e) /\ IsInstance(a, CupyNdarray(e)) = "true"
        THEN Returns("_run_cupy", _run_cupy(a.data, L, cs), a, nm)
        ELSE IF has_cuda(e) /\ IsInstance(a, "dask.array.core.Array") = "true"
                /\ is_cupy_backed(a)
        THEN Raises(<<"_run_dask_cupy">>, _run_dask_cupy(a.data, cs))
        ELSE IF IsInstance(a, "dask.array.core.Array") = "true"
        THEN Returns("_run_dask_numpy", _run_dask_numpy(a.data, ch, cs), a, nm)
        ELSE Raises(<<>>, Raised("TypeError", <<"Unsupported Array Type: ", TypeName(a)>>))

----------------------------------------------------------------------------
(* Spec: one call of curvature() *)

Names == {"curvature", "relief"}

Metas ==
    {[coords |-> <<"northing", "easting">>, dims |-> <<"y", "x">>, units |-> "meters"],
     [coords |-> <<"lat", "lon">>, dims |-> <<"lat", "lon">>, units |-> "feet"]}

Container(k, g, r, m) ==
    [kind |-> k, data |-> g, coords |-> m.coords, dims |-> m.dims,
     attrs |-> [res |-> r, units |-> m.units]]

CallGrids == {Perturb(Terrain(s[1], s[2]), None, None, 0) : s \in Shapes}

(* the chunkings of a call: one chunk, or a cut after the first row and/or   *)
(* the first column                                                         *)
CallChunkings(g) == {ch \in Chunkings(g) : ch[1] \subseteq {1} /\ ch[2] \subseteq {1}}

(* a device-resident array exists only where cupy imports *)
Possible(k, e) == k \in {"cupy", "dask_cupy"} => e.cupyInstalled

Init ==
    /\ env \in [hasCuda : BOOLEAN, cupyInstalled : BOOLEAN]
    /\ agg \in {Container(k, g, r, m) : k \in Kinds, g \in CallGrids, r \in Resolutions,
                                        m \in Metas}
    /\ Possible(agg.kind, env)
    /\ chunks \in IF agg.kind \in {"dask_numpy", "dask_cupy"}
                  THEN CallChunkings(agg.data) ELSE {<<{}, {}>>}
    /\ name \in Names
    /\ pc = "call"
    /\ cellsize = NaN
    /\ invoked = <<>>
    /\ out = NanGrid(0, 0)
    /\ result = NoContainer
    /\ launch = <<0, 0>>
    /\ upc = <<>>
    /\ loc = <<>>
    /\ retired = 0
    /\ acc = {}

Curvature ==
    /\ pc = "call"
    /\ \E L \in IF agg.kind = "cupy" THEN Launches(agg.data) ELSE {launch} :
          LET r == curvature(agg, env, name, chunks, L)
          IN  /\ invoked' = r.invoked
              /\ out' = r.out
              /\ result' = r.result
              /\ launch' = IF r.invoked = <<"_run_cupy">> THEN L ELSE launch
              /\ pc' = IF r.result.kind = "error" THEN "raised" ELSE "returned"
    /\ cellsize' = Mean(get_dataarray_resolution(agg))
    /\ UNCHANGED <<agg, env, name, chunks, upc, loc, retired, acc>>

Next == Curvature

Spec == Init /\ [][Next]_vars

----------------------------------------------------------------------------
(* SpecGpu: one launch of _run_gpu by _run_cupy, unit by unit               *)
(*                                                                          *)
(* Every unit (i, j) of the launch runs the kernel body once.  A unit whose *)
(* test passes takes three steps, interleaved freely with the steps of all  *)
(* other units: the test, the loads and the computation of _gpu, the store. *)
(* A unit whose test fails takes one step that touches nothing; such units  *)
(* are taken in row-major order among themselves (their steps commute with  *)
(* every other step), interleaved freely with the units that pass.          *)

GpuGrids ==
    {Perturb(Terrain(s[1], s[2]), hole, <<1, 1>>, MaxBump) :
        s \in Shapes, hole \in {<<0, 0>>, <<0, 1>>}}

Passing(L, o) == {u \in Units(L) : Guard(u[1], u[2], o.rows, o.cols)}

Failing(L, o) == Units(L) \ Passing(L, o)

(* the number of failing units before u in row-major order *)
FailRank(u, L, o) ==
    Cardinality({w \in Failing(L, o) : w[1] < u[1] \/ (w[1] = u[1] /\ w[2] < u[2])})

(* _run_cupy up to the launch, lines 82-89 *)
InitGpu ==
    /\ agg \in {Bare(g) : g \in GpuGrids}
    /\ cellsize = Mean(<<1, MaxRes>>)
    /\ launch \in Launches(agg.data)
    /\ out = NanGrid(agg.data.rows, agg.data.cols)
    /\ upc = [u \in Passing(launch, out) |-> "test"]
    /\ loc = [u \in Passing(launch, out) |-> NaN]
    /\ retired = 0
    /\ acc = {}
    /\ pc = "running"
    /\ invoked = <<"_run_cupy">>
    /\ env = [hasCuda |-> TRUE, cupyInstalled |-> TRUE]
    /\ name = "curvature"
    /\ result = NoContainer
    /\ chunks = <<{}, {}>>

(* a unit outside the tested region: the test fails and the body is skipped *)
UnitSkip ==
    /\ pc = "running"
    /\ \E u \in Units(launch) :
          /\ ~Guard(u[1], u[2], out.rows, out.cols)
          /\ FailRank(u, launch, out) = retired
          /\ retired' = retired + 1
    /\ UNCHANGED <<agg, env, name, pc, cellsize, invoked, out, result, chunks, launch,
                   upc, loc, acc>>

(* lines 74-75 *)
UnitTest ==
    /\ pc = "running"
    /\ \E u \in DOMAIN upc :
          /\ upc[u] = "test"
          /\ Guard(u[1], u[2], out.rows, out.cols)
          /\ upc' = [upc EXCEPT ![u] = "load"]
    /\ UNCHANGED <<agg, env, name, pc, cellsize, invoked, out, result, chunks, launch,
                   loc, retired, acc>>

(* the right-hand side of line 76: the view and the call of _gpu *)
UnitLoad ==
    /\ pc = "running"
    /\ \E u \in DOMAIN upc :
          /\ upc[u] = "load"
          /\ LET view == Slice(agg.data, u[1], u[2], 1, 1)
             IN  /\ loc' = [loc EXCEPT ![u] = _gpu(agg.data, view, <<cellsize>>)]
                 /\ acc' = acc \cup {<<u, "r", view[t]>> : t \in GpuTaps}
          /\ upc' = [upc EXCEPT ![u] = "store"]
    /\ UNCHANGED <<agg, env, name, pc, cellsize, invoked, out, result, chunks, launch,
                   retired>>

(* the assignment of line 76: out[i, j] = ... *)
UnitStore ==
    /\ pc = "running"
    /\ \E u \in DOMAIN upc :
          /\ upc[u] = "store"
          /\ out' = IF InBounds(out, u) THEN [out EXCEPT !.v[u] = loc[u]] ELSE out
          /\ acc' = acc \cup {<<u, "w", u>>}
          /\ upc' = [upc EXCEPT ![u] = "done"]
    /\ UNCHANGED <<agg, env, name, pc, cellsize, invoked, result, chunks, launch, loc,
                   retired>>

(* the launch is over when every unit has run; _run_cupy returns out *)
LaunchDone ==
    /\ pc = "running"
    /\ \A u \in DOMAIN upc : upc[u] = "done"
    /\ retired = Cardinality(Failing(launch, out))
    /\ pc' = "done"
    /\ UNCHANGED <<agg, env, name, cellsize, invoked, out, result, chunks, launch, upc,
                   loc, retired, acc>>

NextGpu == UnitSkip \/ UnitTest \/ UnitLoad \/ UnitStore \/ LaunchDone

SpecGpu == InitGpu /\ [][NextGpu]_vars

----------------------------------------------------------------------------
(* Properties of the evaluators, under SpecEval *)

Interior(g) == {p \in Idx(g.rows, g.cols) : p[1] \in 1 .. g.rows - 2 /\ p[2] \in 1 .. g.cols - 2}

Border(g) == Idx(g.rows, g.cols) \ Interior(g)

SameShape(g, h) == g.rows = h.rows /\ g.cols = h.cols

Ran(fn) == pc = "done" /\ invoked = <<fn>>

NChunks(g, ch) == (Cardinality(ch[1]) + 1) * (Cardinality(ch[2]) + 1)

(* the five cells the stencil of p reads *)
Taps(p) == {p, <<p[1] + 1, p[2]>>, <<p[1] - 1, p[2]>>, <<p[1], p[2] + 1>>, <<p[1], p[2] - 1>>}

(* C1: for every grid with rows >= 3 and cols >= 3 and every evaluator      *)
(* (dense, tiled after reassembly, kernel after the launch), every border   *)
(* cell of the output is NaN.                                               *)
C1_BorderIsNaN ==
    pc = "done" /\ agg.data.rows >= 3 /\ agg.data.cols >= 3 =>
        /\ SameShape(out, agg.data)
        /\ \A p \in Border(out) : IsNaN(out.v[p])

(* a tiled run over several chunks of a grid without NaN, whose border      *)
(* came out NaN while an interior cell did not                              *)
C1_Witness ==
    /\ Ran("_run_dask_numpy") /\ NChunks(agg.data, chunks) >= 4
    /\ \A p \in Idx(agg.data.rows, agg.data.cols) : ~IsNaN(agg.data.v[p])
    /\ \A p \in Border(out) : IsNaN(out.v[p])
    /\ \E p \in Interior(out) : ~IsNaN(out.v[p])

(* the closed form, cross-multiplied: the grid values are integers n/1 and  *)
(* cellsize is cn/cd, so curvature = -100 * (N+S+E+W-4C) * cd^2 / cn^2      *)
IsClosedForm(r, g, cs, p) ==
    LET sum == g.v[<<p[1] + 1, p[2]>>][1] + g.v[<<p[1] - 1, p[2]>>][1]
               + g.v[<<p[1], p[2] + 1>>][1] + g.v[<<p[1], p[2] - 1>>][1] - 4 * g.v[p][1]
    IN  /\ r[2] > 0
        /\ r[1] * cs[1] * cs[1] = -100 * sum * cs[2] * cs[2] * r[2]

(* C2: _cpu gives every interior cell whose five stencil cells are defined  *)
(* exactly -2*(d+e)*100/cellsize^2, independent of the diagonal cells, and  *)
(* gives NaN when the cell or one of its four orthogonal neighbours is NaN. *)
C2_DenseFormula ==
    Ran("_run_numpy") =>
        \A p \in Interior(agg.data) :
            IF \E q \in Taps(p) : IsNaN(agg.data.v[q])
            THEN IsNaN(out.v[p])
            ELSE IsClosedForm(out.v[p], agg.data, cellsize, p)

(* a dense run where one interior cell has a NaN diagonal neighbour and     *)
(* still a defined, non-zero curvature                                      *)
C2_Witness ==
    /\ Ran("_run_numpy")
    /\ \E p \in Interior(agg.data) :
          /\ IsNaN(agg.data.v[<<p[1] - 1, p[2] - 1>>])
          /\ ~IsNaN(out.v[p]) /\ out.v[p][1] # 0
    /\ cellsize[2] = 2

(* C3: a tiled run over >= 2 chunks gives every cell the value of one dense *)
(* _cpu evaluation of the whole grid; in particular an interior cell whose  *)
(* stencil is defined is never NaN, wherever the chunk edges fall.          *)
C3_TiledEqualsDense ==
    Ran("_run_dask_numpy") /\ NChunks(agg.data, chunks) >= 2 =>
        /\ SameShape(out, agg.data)
        /\ \A p \in Interior(agg.data) :
              /\ out.v[p] = _cpu(agg.data, cellsize).v[p]
              /\ (\A q \in Taps(p) : ~IsNaN(agg.data.v[q])) => ~IsNaN(out.v[p])
        /\ \A p \in Border(agg.data) : IsNaN(out.v[p])

(* a tiled run where an interior cell sits alone in its chunk, so that all  *)
(* four neighbours come from the halo, and has a non-zero curvature         *)
C3_Witness ==
    /\ Ran("_run_dask_numpy")
    /\ \E p \in Interior(agg.data) :
          /\ {p[1], p[1] + 1} \subseteq chunks[1] /\ {p[2], p[2] + 1} \subseteq chunks[2]
          /\ ~IsNaN(out.v[p]) /\ out.v[p][1] # 0

IsPlanar(g) ==
    LET o == g.v[<<0, 0>>]
        a == FSub(g.v[<<1, 0>>], o)
        b == FSub(g.v[<<0, 1>>], o)
    IN  \A p \in Idx(g.rows, g.cols) :
            /\ ~IsNaN(g.v[p])
            /\ g.v[p] = FAdd(o, FAdd(FMul(Num(p[1]), a), FMul(Num(p[2]), b)))

(* the 5x5 all-zero example: a 3x3 block of 0 inside a NaN border *)
FlatExampleResult ==
    Ran("_run_numpy") /\ agg.data = FlatExample =>
        out = Grid(5, 5, [p \in Idx(5, 5) |->
                           IF p[1] \in 1 .. 3 /\ p[2] \in 1 .. 3 THEN Num(0) ELSE NaN])

(* C9: a planar grid a*row + b*col + c (the all-zero grid included) yields  *)
(* exactly 0 at every interior cell, for every cellsize > 0, and NaN on the *)
(* border; the all-zero 5x5 grid gives a 3x3 block of 0 in a NaN border.     *)
C9_PlanarIsFlat ==
    /\ pc = "done" /\ IsPlanar(agg.data) =>
          /\ \A p \in Interior(out) : out.v[p] = Num(0)
          /\ \A p \in Border(out) : IsNaN(out.v[p])
    /\ FlatExampleResult

(* the dense run of a plane with both slopes non-zero and an offset *)
C9_Witness ==
    /\ Ran("_run_numpy") /\ IsPlanar(agg.data)
    /\ agg.data.v[<<1, 0>>] # agg.data.v[<<0, 0>>]
    /\ agg.data.v[<<0, 1>>] # agg.data.v[<<0, 0>>]
    /\ agg.data.v[<<0, 0>>] # Num(0)
    /\ \A p \in Interior(out) : out.v[p] = Num(0)

----------------------------------------------------------------------------
(* Properties of the dispatcher, under Spec *)

Finished == pc \in {"returned", "raised"}

(* C5: a call with a chunked, cupy-backed grid fails with the               *)
(* not-implemented error and returns no grid, and is never routed to        *)
(* _run_dask_numpy, whatever has_cuda() answers.                            *)
C5_DaskCupyFailsFast ==
    Finished /\ agg.kind = "dask_cupy" =>
        /\ pc = "raised"
        /\ result.kind = "error" /\ result.type = "NotImplementedError"
        /\ invoked = <<"_run_dask_cupy">>

(* C6: a storage type that matches no dispatch case (not numpy, not cupy    *)
(* with a device available, not dask) raises the TypeError that names       *)
(* type(agg.data); no evaluator is invoked and nothing is returned.         *)
C6_UnsupportedType ==
    Finished /\ (agg.kind = "other" \/ (agg.kind = "cupy" /\ ~has_cuda(env))) =>
        /\ pc = "raised"
        /\ result = Raised("TypeError", <<"Unsupported Array Type: ", TypeName(agg)>>)
        /\ invoked = <<>>

(* C7: exactly one evaluation path per call, fixed by the representation:   *)
(* numpy -> dense, cupy with a device -> kernel, dask over numpy -> tiled   *)
(* with halo depth 1 and NaN boundary; never two evaluators, nor an         *)
(* evaluator for a representation it is not listed for.                     *)
C7_OnePathPerRepresentation ==
    Finished =>
        /\ Len(invoked) <= 1
        /\ agg.kind = "numpy" => invoked = <<"_run_numpy">>
        /\ agg.kind = "cupy" /\ has_cuda(env) => invoked = <<"_run_cupy">>
        /\ agg.kind = "dask_numpy" =>
              /\ invoked = <<"_run_dask_numpy">>
              /\ Depth = 1 /\ Boundary = NaN
        /\ invoked = <<"_run_numpy">> => agg.kind = "numpy"
        /\ invoked = <<"_run_cupy">> => agg.kind = "cupy" /\ has_cuda(env)
        /\ invoked = <<"_run_dask_numpy">> => agg.kind = "dask_numpy"

(* C8: a successful call returns a container with the input's coords, dims  *)
(* and attrs unchanged and the input's shape; only data and name (the name  *)
(* argument) differ.                                                        *)
C8_MetadataPreserved ==
    pc = "returned" =>
        /\ result.kind = "DataArray"
        /\ result.coords = agg.coords
        /\ result.dims = agg.dims
        /\ result.attrs = agg.attrs
        /\ SameShape(result.data, agg.data)
        /\ result.name = name
        /\ DOMAIN result = {"kind", "data", "name", "coords", "dims", "attrs"}

(* a returned tiled call with a non-default name on a non-square grid *)
C8_Witness ==
    /\ pc = "returned" /\ invoked = <<"_run_dask_numpy">>
    /\ name # "curvature" /\ agg.attrs.units = "feet"
    /\ agg.data.rows # agg.data.cols
    /\ result.attrs = agg.attrs /\ result.data = out

----------------------------------------------------------------------------
(* Properties of the kernel launch, under SpecGpu *)

(* C4: once every unit of a launch that covers the array has run, in any    *)
(* interleaving, the output buffer equals the dense _cpu result at every    *)
(* interior cell and is NaN elsewhere; every unit has stored only to its    *)
(* own cell and loaded only from the input.                                 *)
C4_KernelEqualsDense ==
    /\ pc = "done" => out = _cpu(agg.data, cellsize)
    /\ \A a \in acc : a[2] = "w" => a[3] = a[1]

(* a finished launch, wider than the array, that stored two defined values *)
C4_Witness ==
    /\ pc = "done"
    /\ launch[1] > out.rows /\ launch[2] > out.cols
    /\ Cardinality({p \in Interior(out) : ~IsNaN(out.v[p])}) >= 2
    /\ out = _cpu(agg.data, cellsize)

(* C10: every unit of the launch, those beyond the array extent included,   *)
(* tests interior membership before any array access; every index loaded    *)
(* or stored lies inside the array; a unit outside the interior loads and   *)
(* stores nothing, so its output cell keeps the NaN seeded before launch.   *)
C10_KernelInBounds ==
    /\ \A a \in acc :
          /\ a[3] \in Idx(out.rows, out.cols)
          /\ a[1] \in Interior(out)
          /\ a[1] \in DOMAIN upc /\ upc[a[1]] \in {"store", "done"}
    /\ \A u \in DOMAIN upc : upc[u] # "test" => u \in Interior(out)
    /\ \A p \in Border(out) : IsNaN(out.v[p])

(* a launch wider than the array in which all units beyond the extent have  *)
(* run and an interior unit has loaded and stored                           *)
C10_Witness ==
    /\ pc = "running"
    /\ launch[1] > out.rows /\ launch[2] > out.cols
    /\ retired = Cardinality(Failing(launch, out))
    /\ \E a \in acc : a[2] = "w" /\ ~IsNaN(out.v[a[3]])
    /\ \E a \in acc : a[2] = "r"

====
